---- MODULE Spec2Model ----
(***************************************************************************)
(* jakebailey/twitchmqtt, src/main.go: a relay between Twitch chat (IRC    *)
(* over TLS) and an MQTT broker.  The model follows main(), validate(),   *)
(* Connection.run() with its three concurrent activities (read loop,      *)
(* shutdown waiter goroutine, broker subscribe callback), createIRCConn,  *)
(* login, capReq, join, quit and restartProcess.                          *)
(*                                                                         *)
(* Go strings that the code indexes or prefix-tests (pass, channel names), *)
(* and every string that ends up in an IRC message's Params, are          *)
(* sequences of one-character strings; strings that are only compared     *)
(* (topics, IRC commands, trailing text) are TLA+ strings.                *)
(***************************************************************************)
EXTENDS Integers, Sequences, FiniteSets, TLC

\* Total number of inputs in one run: chat messages the server sends (all
\* sessions) plus broker deliveries on subscribe topics.
MaxEvents == 2

VARIABLES
  config,        \* config.Connections: sequence of Connection records
  snapshot,      \* history: each Connection as validate() saw it
  proc,          \* "running", "exit0" (main returned), "exit1", "exec"
  cause,         \* why the process ended ("" while running)
  mainpc,        \* position of main()
  vres,          \* history: validate() result per connection validated so far
  exitFlag,      \* main's local `exit`
  brokerConnected,
  stop,          \* TRUE once close(stop) has run
  liveAtStop,    \* history: connections inside their read loop when stop closed
  wg,            \* sync.WaitGroup counter
  runpc,         \* per connection: position of run()
  wpc,           \* per connection: position of the shutdown waiter goroutine
  hpc,           \* per connection: position of the subscribe callback
  mu,            \* per connection: holder of `mu` ("free", "waiter", "handler")
  writing,       \* per connection: activities inside conn.Encode right now
  session,       \* per connection: "none", "open", "closed"
  subscribed,    \* per connection: callback registered with the broker client
  wire,          \* history, per connection: messages whose write was attempted
  rcvd,          \* history, per connection: messages Decode returned
  cur,           \* per connection: the read loop's `m`
  hmsg,          \* per connection: the callback's `m`
  delivered,     \* history, per connection: payloads handed to the callback
  published,     \* history, per connection: client.Publish calls
  reconnectAt,   \* history: connections whose loop decoded RECONNECT
  restartEntered,\* history: number of calls of restartProcess
  derr,          \* history, per connection: the error Decode returned ("" if none)
  marshalErrs    \* history, per connection: number of json.Marshal errors

mainVars == <<proc, cause, mainpc, vres, exitFlag, brokerConnected, stop, liveAtStop, wg>>
cfgVars  == <<config, snapshot>>
connVars == <<runpc, wpc, hpc, mu, writing, session, subscribed>>
histVars == <<wire, rcvd, cur, hmsg, delivered, published, reconnectAt, restartEntered,
              derr, marshalErrs>>
vars     == <<cfgVars, mainVars, connVars, histVars>>

----------------------------------------------------------------------------
(* Strings *)

Oauth == <<"o", "a", "u", "t", "h", ":">>

HasPrefix(s, p) == Len(s) >= Len(p) /\ SubSeq(s, 1, Len(p)) = p

\* strings.Join(channels, ",")
RECURSIVE JoinComma(_)
JoinComma(ss) ==
  IF ss = <<>> THEN <<>>
  ELSE IF Len(ss) = 1 THEN ss[1]
  ELSE ss[1] \o <<",">> \o JoinComma(Tail(ss))

----------------------------------------------------------------------------
(* Connection configs *)

Connection(nick, pass, ptopic, pqos, chans, stopic, sqos) ==
  [Nick |-> nick, Pass |-> pass,
   Publish |-> [Topic |-> ptopic, QOS |-> pqos, Channels |-> chans],
   Subscribe |-> [Topic |-> stopic, QOS |-> sqos]]

\* publishes and subscribes, joins two channels (one lacks the '#')
CfgFull ==
  Connection(<<"n">>, Oauth \o <<"x">>, "t1", 1,
             << <<"f", "o", "o">>, <<"#", "f", "o", "o">> >>, "t2", 2)
\* subscribes only
CfgSubOnly == Connection(<<"m">>, Oauth \o <<"y">>, "", 0, <<>>, "t2", 0)
\* publishes only
CfgPubOnly == Connection(<<"p">>, Oauth, "t1", 0, << <<"c">> >>, "", 0)
\* fails validation (empty nick)
CfgBadNick == Connection(<<>>, Oauth \o <<"x">>, "t1", 1, <<>>, "t2", 2)
\* fails validation (empty channel name)
CfgBadChan == Connection(<<"n">>, Oauth \o <<"x">>, "t1", 1, << <<>> >>, "", 0)

ConfigLists ==
  { <<CfgFull>>, <<CfgSubOnly>>, <<CfgPubOnly, CfgPubOnly>>,
    <<CfgFull, CfgBadChan>>, <<CfgBadNick, CfgBadChan>> }

\* the wide input space of validate()
WideConfigs ==
  { Connection(n, p, pt, pq, ch, st, sq) :
      n \in {<<>>, <<"n">>},
      p \in { <<>>, Oauth, Oauth \o <<"x">>, <<"p", "w">>, <<"o", "a", "u", "t", "h">> },
      pt \in {"", "t1"},
      pq \in {0, 2, 3},
      ch \in { <<>>, << <<"a">> >>, << <<"#", "a">>, <<>> >> },
      st \in {"", "t1", "t2"},
      sq \in {0, 2, 255} }

Conns == DOMAIN config

----------------------------------------------------------------------------
(* validate *)

validateNoSubQOS(c) ==
  IF c.Nick = <<>> THEN "errEmptyNick"
  ELSE IF c.Pass = <<>> THEN "errEmptyPass"
  ELSE IF ~HasPrefix(c.Pass, Oauth) THEN "errNonOauthPass"
  ELSE IF c.Publish.Topic = c.Subscribe.Topic THEN "errBadTopics"
  ELSE IF Len(c.Publish.Channels) > 0 /\ c.Publish.Topic = "" THEN "errChannelsNoTopic"
  ELSE IF c.Publish.QOS > 2 THEN "errBadQOS"
  ELSE IF \E i \in DOMAIN c.Publish.Channels : c.Publish.Channels[i] = <<>>
    THEN "errEmptyChannel"
  ELSE "nil"

validate(c) ==
  IF c.Nick = <<>> THEN "errEmptyNick"
  ELSE IF c.Pass = <<>> THEN "errEmptyPass"
  ELSE IF ~HasPrefix(c.Pass, Oauth) THEN "errNonOauthPass"
  ELSE IF c.Publish.Topic = c.Subscribe.Topic THEN "errBadTopics"
  ELSE IF Len(c.Publish.Channels) > 0 /\ c.Publish.Topic = "" THEN "errChannelsNoTopic"
  ELSE IF c.Publish.QOS > 2 \/ c.Subscribe.QOS > 2 THEN "errBadQOS"
  ELSE IF \E i \in DOMAIN c.Publish.Channels : c.Publish.Channels[i] = <<>>
    THEN "errEmptyChannel"
  ELSE "nil"

----------------------------------------------------------------------------
(* IRC messages *)

Message(cmd, params, trailing) ==
  [Command |-> cmd, Params |-> params, Trailing |-> trailing]

\* the zero value of irc.Message
NoMessage == Message("", <<>>, "")

----------------------------------------------------------------------------
(* Initial states *)

InitRest ==
  /\ snapshot = <<>>
  /\ proc = "running"
  /\ cause = ""
  /\ mainpc = "validate"
  /\ vres = <<>>
  /\ exitFlag = FALSE
  /\ brokerConnected = FALSE
  /\ stop = FALSE
  /\ liveAtStop = {}
  /\ wg = 0
  /\ runpc = [c \in Conns |-> "idle"]
  /\ wpc = [c \in Conns |-> "none"]
  /\ hpc = [c \in Conns |-> "idle"]
  /\ mu = [c \in Conns |-> "free"]
  /\ writing = [c \in Conns |-> {}]
  /\ session = [c \in Conns |-> "none"]
  /\ subscribed = [c \in Conns |-> FALSE]
  /\ wire = [c \in Conns |-> <<>>]
  /\ rcvd = [c \in Conns |-> <<>>]
  /\ cur = [c \in Conns |-> NoMessage]
  /\ hmsg = [c \in Conns |-> NoMessage]
  /\ delivered = [c \in Conns |-> <<>>]
  /\ published = [c \in Conns |-> <<>>]
  /\ reconnectAt = {}
  /\ restartEntered = 0
  /\ derr = [c \in Conns |-> ""]
  /\ marshalErrs = [c \in Conns |-> 0]

Init ==
  /\ config \in ConfigLists
  /\ InitRest

InitValidate ==
  /\ config \in { <<c>> : c \in WideConfigs }
  /\ InitRest

----------------------------------------------------------------------------
(* main *)

Fatal(why) ==
  /\ proc' = "exit1"
  /\ cause' = why

\* main.go:74-79 one iteration of the validation loop
MainValidate ==
  /\ proc = "running" /\ mainpc = "validate"
  /\ Len(vres) < Len(config)
  /\ LET i == Len(vres) + 1
         err == validate(config[i])
     IN /\ vres' = Append(vres, err)
        /\ snapshot' = Append(snapshot, config[i])
        /\ exitFlag' = (exitFlag \/ err # "nil")
  /\ UNCHANGED <<config, proc, cause, mainpc, brokerConnected, stop, liveAtStop, wg>>
  /\ UNCHANGED <<connVars, histVars>>

MainCheckExitIgnoresFlag ==
  /\ proc = "running" /\ mainpc = "validate"
  /\ Len(vres) = Len(config)
  /\ mainpc' = "connect"
  /\ UNCHANGED <<proc, cause>>
  /\ UNCHANGED <<cfgVars, vres, exitFlag, brokerConnected, stop, liveAtStop, wg>>
  /\ UNCHANGED <<connVars, histVars>>

\* main.go:81-83 after the loop: os.Exit(1) if any connection was invalid
MainCheckExit ==
  /\ proc = "running" /\ mainpc = "validate"
  /\ Len(vres) = Len(config)
  /\ IF exitFlag
       THEN Fatal("validation") /\ mainpc' = "exited"
       ELSE mainpc' = "connect" /\ UNCHANGED <<proc, cause>>
  /\ UNCHANGED <<cfgVars, vres, exitFlag, brokerConnected, stop, liveAtStop, wg>>
  /\ UNCHANGED <<connVars, histVars>>

\* main.go:85-94 client.Connect()
MainConnect ==
  /\ proc = "running" /\ mainpc = "connect"
  /\ \/ /\ brokerConnected' = TRUE
        /\ mainpc' = "spawn"
        /\ UNCHANGED <<proc, cause>>
     \/ /\ Fatal("connect")
        /\ mainpc' = "exited"
        /\ UNCHANGED brokerConnected
  /\ UNCHANGED <<cfgVars, vres, exitFlag, stop, liveAtStop, wg>>
  /\ UNCHANGED <<connVars, histVars>>

\* main.go:96-102 make(stop), wg.Add(len), go c.run(...) for each connection
MainSpawn ==
  /\ proc = "running" /\ mainpc = "spawn"
  /\ wg' = Len(config)
  /\ runpc' = [c \in Conns |-> "dial"]
  /\ mainpc' = "signal"
  /\ UNCHANGED <<cfgVars, proc, cause, vres, exitFlag, brokerConnected, stop, liveAtStop>>
  /\ UNCHANGED <<wpc, hpc, mu, writing, session, subscribed, histVars>>

InLoop(c) == runpc[c] \in {"decode", "pongwrite", "publish", "sleep", "exec"}

\* main.go:104-108 the interrupt arrives; close(stop)
Interrupt ==
  /\ proc = "running" /\ mainpc = "signal"
  /\ stop' = TRUE
  /\ liveAtStop' = {c \in Conns : InLoop(c) \/ runpc[c] = "subscribe"}
  /\ mainpc' = "wait"
  /\ UNCHANGED <<cfgVars, proc, cause, vres, exitFlag, brokerConnected, wg>>
  /\ UNCHANGED <<connVars, histVars>>

\* main.go:109-110 wg.Wait() returns; main returns (deferred client.Disconnect)
MainWait ==
  /\ proc = "running" /\ mainpc = "wait"
  /\ wg = 0
  /\ proc' = "exit0"
  /\ cause' = "return"
  /\ mainpc' = "exited"
  /\ brokerConnected' = FALSE
  /\ UNCHANGED <<cfgVars, vres, exitFlag, stop, liveAtStop, wg>>
  /\ UNCHANGED <<connVars, histVars>>

----------------------------------------------------------------------------
(* The chat server and the session *)

\* what the chat server may send
ServerMessages ==
  { Message("PING", << <<"t", "m", "i">> >>, "tmi.twitch.tv"),
    Message("PRIVMSG", << <<"#", "a">> >>, "hello"),
    Message("RECONNECT", <<>>, "") }

RECURSIVE TotalLen(_, _)
TotalLen(f, n) == IF n = 0 THEN 0 ELSE Len(f[n]) + TotalLen(f, n - 1)

\* inputs consumed so far
Events == TotalLen(rcvd, Len(config)) + TotalLen(delivered, Len(config))

\* conn.Encode(m) entered by activity a: the message goes on the wire
BeginWrite(c, a, m) ==
  /\ wire' = [wire EXCEPT ![c] = Append(@, m)]
  /\ writing' = [writing EXCEPT ![c] = @ \cup {a}]

EndWrite(c, a) == writing' = [writing EXCEPT ![c] = @ \ {a}]

----------------------------------------------------------------------------
(* Connection.run: session establishment *)

PassMessage(c) == Message("PASS", <<config[c].Pass>>, "")
NickMessage(c) == Message("NICK", <<config[c].Nick>>, "")
CapMessage ==
  Message("CAP", << <<"R", "E", "Q">> >>, "twitch.tv/tags twitch.tv/commands")

SetupMessagesNickFirst(c) == <<NickMessage(c), PassMessage(c), CapMessage>>

\* main.go:288-334 the writes of createIRCConn in order: PASS and NICK (login),
\* CAP REQ (capReq)
SetupMessages(c) == <<PassMessage(c), NickMessage(c), CapMessage>>

\* main.go:166-171 createIRCConn(c.Nick, c.Pass).  No other activity of the
\* connection exists yet, so the call is one step.  tls.Dial fails (k = 0), or
\* the k-th Encode is the first to fail, or all succeed; on an error run logs
\* it and returns (the TLS connection, if any, is not closed).
RunCreateIRCConn(c) ==
  /\ proc = "running" /\ runpc[c] = "dial"
  /\ \/ /\ runpc' = [runpc EXCEPT ![c] = "wgdone"]
        /\ UNCHANGED <<session, wire>>
     \/ \E k \in 1..Len(SetupMessages(c)) :
          /\ session' = [session EXCEPT ![c] = "open"]
          /\ wire' = [wire EXCEPT ![c] = SubSeq(SetupMessages(c), 1, k)]
          /\ runpc' = [runpc EXCEPT ![c] = "wgdone"]
     \/ /\ session' = [session EXCEPT ![c] = "open"]
        /\ wire' = [wire EXCEPT ![c] = SetupMessages(c)]
        /\ runpc' = [runpc EXCEPT ![c] = "join"]
  /\ UNCHANGED <<cfgVars, mainVars, wpc, hpc, mu, writing, subscribed>>
  /\ UNCHANGED <<rcvd, cur, hmsg, delivered, published, reconnectAt, restartEntered, derr, marshalErrs>>

JoinNormalizeAlwaysPrefix(s) == <<"#">> \o s

\* the channel-name rewrite of join (main.go:341-345)
JoinNormalize(s) == IF s[1] # "#" THEN <<"#">> \o s ELSE s

\* main.go:173-184 with 336-351 join; an error is log.Fatal.  After join the
\* waiter goroutine is started (go func() at 177).
RunJoin(c) ==
  /\ proc = "running" /\ runpc[c] = "join"
  /\ LET channels == config[c].Publish.Channels
         normal == [i \in DOMAIN channels |-> JoinNormalize(channels[i])]
     IN IF Len(channels) = 0
          THEN /\ runpc' = [runpc EXCEPT ![c] = "subscribe"]
               /\ wpc' = [wpc EXCEPT ![c] = "wait"]
               /\ UNCHANGED <<config, wire, proc, cause>>
          ELSE \* channels shares its backing array with c.Publish.Channels
               /\ config' = [config EXCEPT ![c].Publish.Channels = normal]
               /\ wire' = [wire EXCEPT ![c] = Append(@, Message("JOIN", <<JoinComma(normal)>>, ""))]
               /\ \/ /\ runpc' = [runpc EXCEPT ![c] = "subscribe"]
                     /\ wpc' = [wpc EXCEPT ![c] = "wait"]
                     /\ UNCHANGED <<proc, cause>>
                  \/ /\ Fatal("join")
                     /\ UNCHANGED <<runpc, wpc>>
  /\ UNCHANGED <<snapshot, mainpc, vres, exitFlag, brokerConnected, stop, liveAtStop, wg>>
  /\ UNCHANGED <<hpc, mu, writing, session, subscribed>>
  /\ UNCHANGED <<rcvd, cur, hmsg, delivered, published, reconnectAt, restartEntered, derr, marshalErrs>>

\* main.go:186-237 client.Subscribe; a subscribe error is log.Fatal
RunSubscribe(c) ==
  /\ proc = "running" /\ runpc[c] = "subscribe"
  /\ IF config[c].Subscribe.Topic # ""
       THEN \/ /\ subscribed' = [subscribed EXCEPT ![c] = TRUE]
               /\ runpc' = [runpc EXCEPT ![c] = "decode"]
               /\ UNCHANGED <<proc, cause>>
            \/ /\ Fatal("subscribe")
               /\ UNCHANGED <<subscribed, runpc>>
       ELSE /\ runpc' = [runpc EXCEPT ![c] = "decode"]
            /\ UNCHANGED <<subscribed, proc, cause>>
  /\ UNCHANGED <<cfgVars, mainpc, vres, exitFlag, brokerConnected, stop, liveAtStop, wg>>
  /\ UNCHANGED <<wpc, hpc, mu, writing, session, histVars>>

----------------------------------------------------------------------------
(* The shutdown waiter goroutine, main.go:177-184 *)

\* main.go:353-357 quit
QuitMessage == Message("QUIT", <<>>, "")

\* <-stop returned; mu.Lock(); quit(conn) entered
WaiterLock(c) ==
  /\ proc = "running" /\ wpc[c] = "wait"
  /\ stop
  /\ mu[c] = "free"
  /\ mu' = [mu EXCEPT ![c] = "waiter"]
  /\ BeginWrite(c, "waiter", QuitMessage)
  /\ wpc' = [wpc EXCEPT ![c] = "quit"]
  /\ UNCHANGED <<cfgVars, mainVars, runpc, hpc, session, subscribed>>
  /\ UNCHANGED <<rcvd, cur, hmsg, delivered, published, reconnectAt, restartEntered, derr, marshalErrs>>

\* quit(conn) returns: nil, then the deferred mu.Unlock(); or an error, log.Fatal
WaiterQuitDone(c) ==
  /\ proc = "running" /\ wpc[c] = "quit"
  /\ \/ /\ session[c] = "open"
        /\ EndWrite(c, "waiter")
        /\ mu' = [mu EXCEPT ![c] = "free"]
        /\ wpc' = [wpc EXCEPT ![c] = "done"]
        /\ UNCHANGED <<proc, cause>>
     \/ /\ Fatal("quit")
        /\ UNCHANGED <<writing, mu, wpc>>
  /\ UNCHANGED <<cfgVars, mainpc, vres, exitFlag, brokerConnected, stop, liveAtStop, wg>>
  /\ UNCHANGED <<runpc, hpc, session, subscribed, histVars>>

----------------------------------------------------------------------------
(* The subscribe callback, main.go:189-230 *)

\* a broker payload either fails json.Unmarshal or yields the two fields
\* (a field the JSON object lacks is the empty string)
Payload(ok, channel, message) == [ok |-> ok, Channel |-> channel, Message |-> message]

Payloads ==
  { Payload(FALSE, <<>>, ""),
    Payload(TRUE, <<>>, "hi"),
    Payload(TRUE, <<"f", "o", "o">>, ""),
    Payload(TRUE, <<"f", "o", "o">>, "hi"),
    Payload(TRUE, <<"#", "f", "o", "o">>, "hi") }

HandlerMessageNoEmptyCheck(p) ==
  IF ~p.ok THEN <<>>
  ELSE IF p.Channel = <<>> THEN <<>>
  ELSE << Message("PRIVMSG",
                  <<IF p.Channel[1] # "#" THEN <<"#">> \o p.Channel ELSE p.Channel>>,
                  p.Message) >>

\* main.go:190-218: the message the callback builds, as a one-element
\* sequence; the empty sequence when the callback returns without writing
HandlerMessage(p) ==
  IF ~p.ok THEN <<>>
  ELSE IF p.Channel = <<>> THEN <<>>
  ELSE IF p.Message = "" THEN <<>>
  ELSE << Message("PRIVMSG",
                  <<IF p.Channel[1] # "#" THEN <<"#">> \o p.Channel ELSE p.Channel>>,
                  p.Message) >>

\* the broker client calls the callback with payload p (main.go:189-222)
BrokerDeliver(c, p) ==
  /\ proc = "running" /\ subscribed[c] /\ hpc[c] = "idle"
  /\ Events < MaxEvents
  /\ delivered' = [delivered EXCEPT ![c] = Append(@, p)]
  /\ LET m == HandlerMessage(p)
     IN IF m = <<>>
          THEN UNCHANGED <<hpc, hmsg>>
          ELSE /\ hmsg' = [hmsg EXCEPT ![c] = m[1]]
               /\ hpc' = [hpc EXCEPT ![c] = "lock"]
  /\ UNCHANGED <<cfgVars, mainVars, runpc, wpc, mu, writing, session, subscribed>>
  /\ UNCHANGED <<wire, rcvd, cur, published, reconnectAt, restartEntered, derr, marshalErrs>>

\* main.go:224-227 mu.Lock(); conn.Encode(m) entered
HandlerLock(c) ==
  /\ proc = "running" /\ hpc[c] = "lock"
  /\ mu[c] = "free"
  /\ mu' = [mu EXCEPT ![c] = "handler"]
  /\ BeginWrite(c, "handler", hmsg[c])
  /\ hpc' = [hpc EXCEPT ![c] = "encode"]
  /\ UNCHANGED <<cfgVars, mainVars, runpc, wpc, session, subscribed>>
  /\ UNCHANGED <<rcvd, cur, hmsg, delivered, published, reconnectAt, restartEntered, derr, marshalErrs>>

HandlerDoneKeepsLock(c) ==
  /\ proc = "running" /\ hpc[c] = "encode"
  /\ EndWrite(c, "handler")
  /\ hpc' = [hpc EXCEPT ![c] = "idle"]
  /\ hmsg' = [hmsg EXCEPT ![c] = NoMessage]
  /\ UNCHANGED <<cfgVars, mainVars, runpc, wpc, mu, session, subscribed>>
  /\ UNCHANGED <<wire, rcvd, cur, delivered, published, reconnectAt, restartEntered, derr, marshalErrs>>

\* main.go:227-229 conn.Encode returns (an error is only logged); mu.Unlock()
HandlerDone(c) ==
  /\ proc = "running" /\ hpc[c] = "encode"
  /\ EndWrite(c, "handler")
  /\ mu' = [mu EXCEPT ![c] = "free"]
  /\ hpc' = [hpc EXCEPT ![c] = "idle"]
  /\ hmsg' = [hmsg EXCEPT ![c] = NoMessage]
  /\ UNCHANGED <<cfgVars, mainVars, runpc, wpc, session, subscribed>>
  /\ UNCHANGED <<wire, rcvd, cur, delivered, published, reconnectAt, restartEntered, derr, marshalErrs>>

----------------------------------------------------------------------------
(* The read loop, main.go:239-285 *)

PongOfNoTrailing(m) == [m EXCEPT !.Command = "PONG", !.Trailing = ""]

\* main.go:260 m.Command = "PONG"
PongOf(m) == [m EXCEPT !.Command = "PONG"]

\* where the loop goes once a non-PING message needs no (more) publishing:
\* main.go:280-284
AfterForward(m) == IF m.Command = "RECONNECT" THEN "sleep" ELSE "decode"

\* main.go:241 conn.Decode returns message m; 259-261 a PING is rewritten and
\* conn.Encode(&m) is entered, without mu
DecodeMessage(c, m) ==
  /\ proc = "running" /\ runpc[c] = "decode"
  /\ Events < MaxEvents
  /\ rcvd' = [rcvd EXCEPT ![c] = Append(@, m)]
  /\ reconnectAt' = IF m.Command = "RECONNECT" THEN reconnectAt \cup {c} ELSE reconnectAt
  /\ IF m.Command = "PING"
       THEN /\ cur' = [cur EXCEPT ![c] = PongOf(m)]
            /\ BeginWrite(c, "loop", PongOf(m))
            /\ runpc' = [runpc EXCEPT ![c] = "pongwrite"]
       ELSE LET next == IF config[c].Publish.Topic # "" THEN "publish"
                        ELSE AfterForward(m)
            IN /\ runpc' = [runpc EXCEPT ![c] = next]
               /\ cur' = [cur EXCEPT ![c] = IF next = "decode" THEN NoMessage ELSE m]
               /\ UNCHANGED <<wire, writing>>
  /\ UNCHANGED <<cfgVars, mainVars, wpc, hpc, mu, session, subscribed>>
  /\ UNCHANGED <<hmsg, delivered, published, restartEntered, derr, marshalErrs>>

DecodeFailsAnyErrorBreaks(c) ==
  /\ proc = "running" /\ runpc[c] = "decode"
  /\ \E e \in {"EOF", "other"} :
       /\ derr' = [derr EXCEPT ![c] = e]
       /\ runpc' = [runpc EXCEPT ![c] = "close"]
  /\ UNCHANGED <<cfgVars, mainVars>>
  /\ UNCHANGED <<wpc, hpc, mu, writing, session, subscribed>>
  /\ UNCHANGED <<wire, rcvd, cur, hmsg, delivered, published, reconnectAt, restartEntered,
                 marshalErrs>>

\* main.go:241-246 conn.Decode returns io.EOF: break; any other error: log.Fatal
DecodeFails(c) ==
  /\ proc = "running" /\ runpc[c] = "decode"
  /\ \/ /\ derr' = [derr EXCEPT ![c] = "EOF"]
        /\ runpc' = [runpc EXCEPT ![c] = "close"]
        /\ UNCHANGED <<proc, cause>>
     \/ /\ derr' = [derr EXCEPT ![c] = "other"]
        /\ Fatal("decode")
        /\ UNCHANGED runpc
  /\ UNCHANGED <<cfgVars, mainpc, vres, exitFlag, brokerConnected, stop, liveAtStop, wg>>
  /\ UNCHANGED <<wpc, hpc, mu, writing, session, subscribed>>
  /\ UNCHANGED <<wire, rcvd, cur, hmsg, delivered, published, reconnectAt, restartEntered,
                 marshalErrs>>

\* main.go:261-264 conn.Encode(&m) returns (an error is only logged); continue
PongDone(c) ==
  /\ proc = "running" /\ runpc[c] = "pongwrite"
  /\ EndWrite(c, "loop")
  /\ runpc' = [runpc EXCEPT ![c] = "decode"]
  /\ cur' = [cur EXCEPT ![c] = NoMessage]
  /\ UNCHANGED <<cfgVars, mainVars, wpc, hpc, mu, session, subscribed>>
  /\ UNCHANGED <<wire, rcvd, hmsg, delivered, published, reconnectAt, restartEntered, derr, marshalErrs>>

PublishSkipsReconnect(c) ==
  /\ proc = "running" /\ runpc[c] = "publish"
  /\ \/ /\ runpc' = [runpc EXCEPT ![c] = "decode"]
        /\ cur' = [cur EXCEPT ![c] = NoMessage]
        /\ marshalErrs' = [marshalErrs EXCEPT ![c] = @ + 1]
        /\ UNCHANGED published
     \/ /\ published' = [published EXCEPT ![c] =
                           IF cur[c].Command = "RECONNECT" THEN @
                           ELSE Append(@, [Topic |-> config[c].Publish.Topic,
                                           QOS |-> config[c].Publish.QOS,
                                           Msg |-> cur[c]])]
        /\ runpc' = [runpc EXCEPT ![c] = AfterForward(cur[c])]
        /\ cur' = [cur EXCEPT ![c] =
                     IF AfterForward(cur[c]) = "decode" THEN NoMessage ELSE @]
        /\ UNCHANGED marshalErrs
  /\ UNCHANGED <<cfgVars, mainVars, wpc, hpc, mu, writing, session, subscribed>>
  /\ UNCHANGED <<wire, rcvd, hmsg, delivered, reconnectAt, restartEntered, derr>>

\* main.go:267-278 json.Marshal (an error: continue), client.Publish (an error
\* is only logged), then the RECONNECT test of 280
Publish(c) ==
  /\ proc = "running" /\ runpc[c] = "publish"
  /\ \/ /\ runpc' = [runpc EXCEPT ![c] = "decode"]
        /\ cur' = [cur EXCEPT ![c] = NoMessage]
        /\ marshalErrs' = [marshalErrs EXCEPT ![c] = @ + 1]
        /\ UNCHANGED published
     \/ /\ published' = [published EXCEPT ![c] =
                           Append(@, [Topic |-> config[c].Publish.Topic,
                                      QOS |-> config[c].Publish.QOS,
                                      Msg |-> cur[c]])]
        /\ runpc' = [runpc EXCEPT ![c] = AfterForward(cur[c])]
        /\ cur' = [cur EXCEPT ![c] =
                     IF AfterForward(cur[c]) = "decode" THEN NoMessage ELSE @]
        /\ UNCHANGED marshalErrs
  /\ UNCHANGED <<cfgVars, mainVars, wpc, hpc, mu, writing, session, subscribed>>
  /\ UNCHANGED <<wire, rcvd, hmsg, delivered, reconnectAt, restartEntered, derr>>

\* main.go:281-283 the one-second sleep is over; restartProcess() is called
Sleep(c) ==
  /\ proc = "running" /\ runpc[c] = "sleep"
  /\ restartEntered' = restartEntered + 1
  /\ runpc' = [runpc EXCEPT ![c] = "exec"]
  /\ UNCHANGED <<cfgVars, mainVars, wpc, hpc, mu, writing, session, subscribed>>
  /\ UNCHANGED <<wire, rcvd, cur, hmsg, delivered, published, reconnectAt, derr, marshalErrs>>

\* main.go:365-367 syscall.Exec replaces the process image, or fails: log.Fatal
restartProcess(c) ==
  /\ proc = "running" /\ runpc[c] = "exec"
  /\ \/ proc' = "exec" /\ cause' = "restart"
     \/ Fatal("exec")
  /\ UNCHANGED <<cfgVars, mainpc, vres, exitFlag, brokerConnected, stop, liveAtStop, wg>>
  /\ UNCHANGED <<connVars, histVars>>

\* main.go:171 the deferred conn.Close()
RunClose(c) ==
  /\ proc = "running" /\ runpc[c] = "close"
  /\ session' = [session EXCEPT ![c] = "closed"]
  /\ runpc' = [runpc EXCEPT ![c] = "wgdone"]
  /\ UNCHANGED <<cfgVars, mainVars, wpc, hpc, mu, writing, subscribed, histVars>>

RunDoneNoSignal(c) ==
  /\ proc = "running" /\ runpc[c] = "wgdone"
  /\ runpc' = [runpc EXCEPT ![c] = "returned"]
  /\ UNCHANGED <<cfgVars, mainVars>>
  /\ UNCHANGED <<wpc, hpc, mu, writing, session, subscribed, histVars>>

\* main.go:163 the deferred wg.Done()
RunDone(c) ==
  /\ proc = "running" /\ runpc[c] = "wgdone"
  /\ wg' = wg - 1
  /\ runpc' = [runpc EXCEPT ![c] = "returned"]
  /\ UNCHANGED <<cfgVars, proc, cause, mainpc, vres, exitFlag, brokerConnected, stop, liveAtStop>>
  /\ UNCHANGED <<wpc, hpc, mu, writing, session, subscribed, histVars>>

----------------------------------------------------------------------------
(* Specifications *)

\* the steps the program takes by itself
ProgramStep ==
  \/ MainValidate
  \/ MainCheckExit
  \/ MainConnect
  \/ MainSpawn
  \/ MainWait
  \/ \E c \in Conns : RunCreateIRCConn(c)
  \/ \E c \in Conns : RunJoin(c)
  \/ \E c \in Conns : RunSubscribe(c)
  \/ \E c \in Conns : WaiterLock(c)
  \/ \E c \in Conns : WaiterQuitDone(c)
  \/ \E c \in Conns : HandlerLock(c)
  \/ \E c \in Conns : HandlerDone(c)
  \/ \E c \in Conns : PongDone(c)
  \/ \E c \in Conns : Publish(c)
  \/ \E c \in Conns : Sleep(c)
  \/ \E c \in Conns : restartProcess(c)
  \/ \E c \in Conns : RunClose(c)
  \/ \E c \in Conns : RunDone(c)

\* what the outside does: the interrupt, the chat server, the broker
EnvironmentStep ==
  \/ Interrupt
  \/ \E c \in Conns, m \in ServerMessages : DecodeMessage(c, m)
  \/ \E c \in Conns : DecodeFails(c)
  \/ \E c \in Conns, p \in Payloads : BrokerDeliver(c, p)

Next == ProgramStep \/ EnvironmentStep

Spec == Init /\ [][Next]_vars

\* validate() over its whole input space: main's validation loop and exit test
NextValidate == MainValidate \/ MainCheckExit

SpecValidate == InitValidate /\ [][NextValidate]_vars

\* one connection that publishes and subscribes, with fair scheduling of the
\* goroutines that use the lock
InitFair ==
  /\ config = <<CfgFull>>
  /\ InitRest

FairConns == DOMAIN <<CfgFull>>

\* the Go scheduler runs a runnable goroutine eventually: a goroutine that can
\* take the free sync.Mutex does, and a conn.Encode that was entered returns
Fairness ==
  \A c \in FairConns :
    /\ WF_vars(HandlerLock(c))
    /\ WF_vars(HandlerDone(c))
    /\ WF_vars(WaiterLock(c))
    /\ WF_vars(WaiterQuitDone(c))

SpecFair == InitFair /\ [][Next]_vars /\ Fairness

----------------------------------------------------------------------------
(* Properties *)

IsCommand(m, cmd) == m.Command = cmd
IsPing(m) == IsCommand(m, "PING")
IsPong(m) == IsCommand(m, "PONG")
IsPrivmsg(m) == IsCommand(m, "PRIVMSG")
IsQuit(m) == IsCommand(m, "QUIT")

QuitAttempted(c) == \E i \in DOMAIN wire[c] : IsQuit(wire[c][i])

\* C1: every write to a session after its establishment (PRIVMSG by the
\* subscribe callback, PONG by the read loop, QUIT by the shutdown waiter) is
\* made while the writer holds the connection's lock, so at most one activity
\* is inside a write at any time.
C1_WritesHoldLock ==
  \A c \in Conns :
    /\ \A a \in writing[c] : mu[c] = a
    /\ Cardinality(writing[c]) <= 1

\* C2: after the stop signal, a connection that was running when it fired
\* raises its completion signal only after the QUIT write on its session has
\* been attempted, and main returns only after that holds of every such
\* connection.
C2_ClosedOnlyAfterQuit ==
  \A c \in liveAtStop :
    (runpc[c] = "returned" \/ proc = "exit0") => QuitAttempted(c)

\* C3: after the stop signal the shutdown completes without the chat server's
\* help (the waiter itself closes the session): as long as the process is
\* alive after stop, the program has a step to take that does not wait for
\* the server to close the stream or to send a message.
C3_ShutdownNeedsNoServer ==
  (stop /\ proc = "running") => ENABLED ProgramStep

\* C4: once a read loop has decoded RECONNECT (and is on its way to
\* restartProcess, main.go:280-283) no connection decodes another
\* message, no read loop writes a PONG and no subscribe callback writes a
\* PRIVMSG to a session, nothing is published but that RECONNECT message,
\* and restartProcess is entered at most once.
C4_ReconnectStopsProcessing ==
  [][(\E r \in reconnectAt : runpc[r] \in {"sleep", "exec"}) =>
       /\ rcvd' = rcvd
       /\ \A c \in Conns :
            wire'[c] # wire[c] =>
              wire'[c][Len(wire'[c])].Command \notin {"PONG", "PRIVMSG"}
       /\ \A c \in Conns :
            published'[c] # published[c] => (c \in reconnectAt /\ cur[c].Command = "RECONNECT")
       /\ restartEntered' <= 1]_vars

\* a step in which the session establishment of c fails
SetupFails(c) ==
  \/ runpc[c] = "dial" /\ runpc'[c] = "wgdone"
  \/ runpc[c] = "join" /\ cause = "" /\ cause' = "join"

\* C5: a failure during session establishment (dial, PASS/NICK, CAP REQ, JOIN)
\* abandons only that connection: the connection heads for its completion
\* signal, the process keeps running and no other connection is touched.
C5_SetupFailureAbandonsOnlyConnection ==
  [][\A c \in Conns :
       SetupFails(c) =>
         /\ proc' = "running"
         /\ runpc'[c] = "wgdone"
         /\ \A d \in Conns \ {c} : runpc'[d] = runpc[d]]_vars

\* C6: a failure of the QUIT write during shutdown is only logged: it never
\* terminates the process.
C6_QuitFailureOnlyLogged ==
  proc = "exit1" => cause # "quit"

\* C7: for every PING received with parameters P and trailing T the read
\* loop writes exactly one PONG with the same P and T to the same session,
\* and neither the PING nor the PONG is ever published to the broker.
C7_PingPong ==
  \A c \in Conns :
    LET pings == SelectSeq(rcvd[c], IsPing)
        pongs == SelectSeq(wire[c], IsPong)
    IN /\ Len(pongs) = Len(pings)
       /\ \A i \in DOMAIN pongs :
            pongs[i].Params = pings[i].Params /\ pongs[i].Trailing = pings[i].Trailing
       /\ \A j \in DOMAIN published[c] :
            published[c][j].Msg.Command \notin {"PING", "PONG"}
       /\ Len(published[c]) <= Len(rcvd[c]) - Len(pings)

\* C7 witness: a connection with a publish topic has answered two PINGs and
\* is back in Decode.
C7_Witness ==
  \E c \in Conns :
    /\ config[c].Publish.Topic # ""
    /\ Len(SelectSeq(wire[c], IsPong)) = 2
    /\ runpc[c] = "decode"

WellFormed(p) == p.ok /\ p.Channel # <<>> /\ p.Message # ""

\* the channel with a leading '#' added if it was missing
WithHash(ch) == IF Head(ch) = "#" THEN ch ELSE <<"#">> \o ch

\* C8: each broker delivery whose payload decodes to a non-empty channel and
\* a non-empty message yields exactly one PRIVMSG whose only parameter is the
\* channel with a leading '#' and whose trailing is the message (the last one
\* may still wait for the lock); every other delivery yields no write.
C8_DeliveryToPrivmsg ==
  \A c \in Conns :
    LET good == SelectSeq(delivered[c], WellFormed)
        sent == SelectSeq(wire[c], IsPrivmsg)
        pending == IF hpc[c] = "lock" THEN 1 ELSE 0
    IN /\ Len(sent) + pending = Len(good)
       /\ \A i \in DOMAIN sent :
            sent[i] = Message("PRIVMSG", <<WithHash(good[i].Channel)>>, good[i].Message)

\* C8 witness: {"channel":"foo","message":"hi"} was delivered after a payload
\* that was dropped, and PRIVMSG #foo :hi has been written.
C8_Witness ==
  \E c \in Conns :
    /\ Len(delivered[c]) = 2
    /\ ~WellFormed(delivered[c][1])
    /\ delivered[c][2] = Payload(TRUE, <<"f", "o", "o">>, "hi")
    /\ hpc[c] = "idle"
    /\ \E i \in DOMAIN wire[c] :
         wire[c][i] = Message("PRIVMSG", << <<"#", "f", "o", "o">> >>, "hi")

ValidationErrors ==
  {"errEmptyNick", "errEmptyPass", "errNonOauthPass", "errBadTopics",
   "errBadQOS", "errChannelsNoTopic", "errEmptyChannel"}

StartsWithOauth(p) ==
  /\ Len(p) >= 6
  /\ p[1] = "o" /\ p[2] = "a" /\ p[3] = "u" /\ p[4] = "t" /\ p[5] = "h" /\ p[6] = ":"

\* the conditions the claim lists for a valid Connection Config
Valid(c) ==
  /\ c.Nick # <<>>
  /\ c.Pass # <<>> /\ StartsWithOauth(c.Pass)
  /\ c.Publish.Topic # c.Subscribe.Topic
  /\ (c.Publish.Channels # <<>> => c.Publish.Topic # "")
  /\ c.Publish.QOS <= 2 /\ c.Subscribe.QOS <= 2
  /\ \A i \in DOMAIN c.Publish.Channels : c.Publish.Channels[i] # <<>>

\* C9: validate returns nil exactly for the configs with a non-empty nick, a
\* non-empty pass starting with "oauth:", different publish and subscribe
\* topics, a publish topic whenever channels are listed, both QOS at most 2
\* and no empty channel name; otherwise it returns one of the seven errors.
C9_ValidateIff ==
  \A i \in DOMAIN vres :
    /\ (vres[i] = "nil") <=> Valid(snapshot[i])
    /\ vres[i] \in ValidationErrors \cup {"nil"}

\* C9 witness: validate accepted a config that lists channels.
C9_Witness ==
  /\ vres = <<"nil">>
  /\ config[1].Publish.Channels # <<>>
  /\ config[1].Subscribe.Topic = ""

\* C10: if any configured connection fails validation then every connection
\* is validated, the process exits non-zero right after the validation loop,
\* the broker client is never connected and run is never started for any
\* connection.
C10_InvalidConfigRefusesStart ==
  LET invalid == {i \in DOMAIN config : validate(config[i]) # "nil"}
  IN invalid # {} =>
       /\ ~brokerConnected
       /\ \A c \in Conns : runpc[c] = "idle" /\ session[c] = "none"
       /\ mainpc # "validate" =>
            /\ proc = "exit1" /\ cause = "validation"
            /\ Len(vres) = Len(config)
            /\ \A i \in invalid : vres[i] # "nil"

\* C10 witness: the first connection is valid, the second is not, and the
\* process has exited without starting either.
C10_Witness ==
  /\ proc = "exit1"
  /\ Len(config) = 2
  /\ validate(config[1]) = "nil"
  /\ vres[2] # "nil"

----------------------------------------------------------------------------
(* C11: end-of-stream against any other decode error *)

\* the connection is past the read loop on the way to closed
PastLoop(c) == runpc[c] \in {"close", "wgdone", "returned"}

\* C11: a Decode that returns io.EOF makes only that connection leave the
\* loop: the process keeps running, no sibling's position or session changes,
\* and the connection goes on to close its session and raise its completion
\* signal; a Decode that returns any other error ends the whole process with
\* a non-zero status.
C11_DecodeErrors ==
  /\ [](\A c \in Conns :
          /\ derr[c] = "other" => proc = "exit1" /\ cause = "decode"
          /\ derr[c] = "EOF" =>
               /\ PastLoop(c)
               /\ runpc[c] \in {"wgdone", "returned"} => session[c] = "closed"
               /\ (proc = "running" /\ runpc[c] = "close") => ENABLED RunClose(c)
               /\ (proc = "running" /\ runpc[c] = "wgdone") => ENABLED RunDone(c))
  /\ [][\A c \in Conns :
          /\ (derr[c] = "" /\ derr'[c] = "EOF") =>
               /\ proc' = "running"
               /\ runpc'[c] = "close"
               /\ \A d \in Conns \ {c} :
                    runpc'[d] = runpc[d] /\ session'[d] = session[d]
          /\ (derr[c] = "EOF" /\ runpc[c] = "wgdone" /\ runpc'[c] = "returned") =>
               wg' = wg - 1]_vars

\* C11 witness: of two connections one has returned after end-of-stream with
\* its session closed, the other is still reading and the process runs.
C11_Witness ==
  \E c, d \in Conns :
    /\ c # d
    /\ derr[c] = "EOF" /\ runpc[c] = "returned" /\ session[c] = "closed"
    /\ runpc[d] = "decode" /\ session[d] = "open"
    /\ proc = "running"

----------------------------------------------------------------------------
(* C12: the wait group *)

\* the connections whose run has not returned
Outstanding == {c \in Conns : runpc[c] # "returned"}

\* main has started the connections (main.go:98-102)
Started == \E c \in Conns : runpc[c] # "idle"

\* C12: the wait group counter never goes below zero; once the connections
\* are started it equals the number of connections whose run has not yet
\* returned, so each return (after a failed session establishment or after the
\* read loop) lowers it exactly once and it is zero exactly when all have
\* returned; the process exits normally only after the interrupt and with
\* every connection returned.
C12_CompletionSignals ==
  /\ wg >= 0
  /\ Started =>
       /\ wg = Cardinality(Outstanding)
       /\ wg = 0 <=> \A c \in Conns : runpc[c] = "returned"
  /\ proc = "exit0" =>
       /\ stop
       /\ wg = 0
       /\ \A c \in Conns : runpc[c] = "returned"

\* C12 witness: the process exited normally with two connections, one that
\* failed session establishment and one that left the read loop.
C12_Witness ==
  /\ proc = "exit0"
  /\ \E c, d \in Conns :
       /\ c # d
       /\ session[c] = "none" /\ runpc[c] = "returned"
       /\ derr[d] = "EOF" /\ runpc[d] = "returned"

----------------------------------------------------------------------------
(* C13: channel-name normalization *)

\* the channel parameter the callback writes for channel name n (main.go:205-207)
HandlerNormalize(n) == HandlerMessage(Payload(TRUE, n, "x"))[1].Params[1]

\* the name n with '#' in front unless it starts with '#'
Prefixed(n) == IF Head(n) = "#" THEN n ELSE <<"#">> \o n

\* the connection has called join (main.go:173)
Joined(c) == runpc[c] \notin {"idle", "dial", "join", "wgdone", "returned"} \/ wpc[c] # "none"

\* C13: every channel name join has normalized is the configured name with
\* '#' in front unless it already started with '#', and so is the channel
\* parameter of every PRIVMSG the callback wrote; normalizing either result
\* again, on either path, returns it unchanged; and the two paths give the
\* same output when applied to the same name.
C13_Normalization ==
  \A c \in Conns :
    LET before == snapshot[c].Publish.Channels
        after == config[c].Publish.Channels
        good == SelectSeq(delivered[c], WellFormed)
        sent == SelectSeq(wire[c], IsPrivmsg)
    IN /\ Joined(c) =>
            \A i \in DOMAIN before :
              /\ after[i] = Prefixed(before[i])
              /\ JoinNormalize(after[i]) = after[i]
              /\ HandlerNormalize(after[i]) = after[i]
              /\ HandlerNormalize(before[i]) = after[i]
       /\ \A j \in DOMAIN sent :
            /\ sent[j].Params[1] = Prefixed(good[j].Channel)
            /\ HandlerNormalize(sent[j].Params[1]) = sent[j].Params[1]
            /\ JoinNormalize(sent[j].Params[1]) = sent[j].Params[1]
            /\ JoinNormalize(good[j].Channel) = sent[j].Params[1]
            /\ Joined(c) =>
                 \A i \in DOMAIN before :
                   before[i] = good[j].Channel => after[i] = sent[j].Params[1]

\* C13 witness: join has normalized the configured names foo and #foo, and
\* the callback has written a PRIVMSG for a delivery that named channel foo.
C13_Witness ==
  \E c \in Conns :
    /\ Joined(c)
    /\ snapshot[c].Publish.Channels = << <<"f", "o", "o">>, <<"#", "f", "o", "o">> >>
    /\ \E j \in DOMAIN delivered[c] :
         WellFormed(delivered[c][j]) /\ delivered[c][j].Channel = <<"f", "o", "o">>
    /\ \E k \in DOMAIN wire[c] :
         IsPrivmsg(wire[c][k]) /\ wire[c][k].Params[1] = <<"#", "f", "o", "o">>

----------------------------------------------------------------------------
(* C14: RECONNECT and the forwarding step before it *)

\* C14: a read loop that has decoded RECONNECT is forwarding that message
\* or is on the restart path (the one-second sleep, then the exec); it never
\* goes back to decode the next message, whatever the forwarding step did.
C14_ReconnectAlwaysRestarts ==
  \A c \in reconnectAt : runpc[c] \in {"publish", "sleep", "exec"}

----------------------------------------------------------------------------
(* C15: forwarding to the broker *)

NotPing(m) == ~IsPing(m)

\* s is t with some elements left out
RECURSIVE IsSubSeq(_, _)
IsSubSeq(s, t) ==
  IF s = <<>> THEN TRUE
  ELSE IF t = <<>> THEN FALSE
  ELSE IF Head(s) = Head(t) THEN IsSubSeq(Tail(s), Tail(t))
  ELSE IsSubSeq(s, Tail(t))

\* the messages of the Publish calls of connection c
PublishedMessages(c) == [i \in DOMAIN published[c] |-> published[c][i].Msg]

\* C15: without a publish topic nothing is published.  With one, each decoded
\* message that is not a PING is handed to client.Publish once, on the
\* configured topic at the configured QOS, in the order decoded, except the
\* ones json.Marshal failed on, which are not published at all; a RECONNECT is
\* published before the restart path is entered.  The forwarding step never
\* ends the process: after a serialization error, and after the Publish call
\* of any message but RECONNECT, the loop is back at Decode.
C15_PublishOnce ==
  /\ [](\A c \in Conns :
          LET decoded == SelectSeq(rcvd[c], NotPing)
              pending == IF runpc[c] = "publish" THEN 1 ELSE 0
          IN /\ config[c].Publish.Topic = "" =>
                  published[c] = <<>> /\ marshalErrs[c] = 0 /\ pending = 0
             /\ config[c].Publish.Topic # "" =>
                  /\ Len(published[c]) + marshalErrs[c] + pending = Len(decoded)
                  /\ IsSubSeq(PublishedMessages(c), decoded)
                  /\ \A i \in DOMAIN published[c] :
                       /\ published[c][i].Topic = config[c].Publish.Topic
                       /\ published[c][i].QOS = config[c].Publish.QOS
                  /\ (runpc[c] \in {"sleep", "exec"}) =>
                       /\ published[c] # <<>>
                       /\ published[c][Len(published[c])].Msg.Command = "RECONNECT")
  /\ [][\A c \in Conns :
          (runpc[c] = "publish" /\ runpc'[c] # "publish") =>
             /\ proc' = "running"
             /\ runpc'[c] = IF marshalErrs'[c] # marshalErrs[c] THEN "decode"
                            ELSE IF cur[c].Command = "RECONNECT" THEN "sleep"
                            ELSE "decode"
             /\ marshalErrs'[c] # marshalErrs[c] => published'[c] = published[c]
             /\ marshalErrs'[c] = marshalErrs[c] =>
                  published'[c] = Append(published[c],
                                         [Topic |-> config[c].Publish.Topic,
                                          QOS |-> config[c].Publish.QOS,
                                          Msg |-> cur[c]])]_vars

\* C15 witness: json.Marshal failed on the first message, the loop went on,
\* a RECONNECT was decoded and published, and the one-second sleep began.
C15_Witness ==
  \E c \in Conns :
    /\ marshalErrs[c] = 1
    /\ Len(rcvd[c]) = 2
    /\ Len(published[c]) = 1
    /\ published[c][1].Msg.Command = "RECONNECT"
    /\ published[c][1].Topic = "t1" /\ published[c][1].QOS = 1
    /\ runpc[c] = "sleep"

----------------------------------------------------------------------------
(* C16: the lifecycle of a connection *)

\* the lifecycle state of connection c: 0 before run is started, 1 starting,
\* 2 running, 3 draining, 4 closed
Lifecycle(c) ==
  CASE runpc[c] = "idle" -> 0
    [] runpc[c] \in {"dial", "join"} -> 1
    [] runpc[c] \in {"subscribe", "decode", "pongwrite", "publish", "sleep", "exec"} -> 2
    [] runpc[c] = "close" -> 3
    [] runpc[c] \in {"wgdone", "returned"} -> 4

\* C16: no step moves a connection to an earlier lifecycle state, a failed
\* session establishment goes from starting to closed, and once run has
\* returned the session is not open and nobody holds the connection's lock.
C16_LifecycleForwardOnly ==
  /\ [][\A c \in Conns :
          /\ Lifecycle(c)' >= Lifecycle(c)
          /\ (Lifecycle(c) = 1 /\ Lifecycle(c)' > 1 /\ runpc'[c] # "subscribe") =>
               Lifecycle(c)' = 4]_vars
  /\ [](\A c \in Conns :
          runpc[c] = "returned" => session[c] # "open" /\ mu[c] = "free")

----------------------------------------------------------------------------
(* C17: writes after conn.Close *)

\* C17: once the deferred conn.Close() of run has closed a session, no
\* message is written to it any more, neither by the subscribe callback nor
\* by the shutdown waiter.
C17_NoWriteAfterClose ==
  [][\A c \in Conns : session[c] = "closed" => wire'[c] = wire[c]]_vars

----------------------------------------------------------------------------
(* C18: the order of the writes of session establishment *)

\* the writes of session establishment of connection c, JOIN included
EstablishmentWrites(c) ==
  <<PassMessage(c), NickMessage(c), CapMessage>> \o
    (IF config[c].Publish.Channels = <<>> THEN <<>>
     ELSE <<Message("JOIN", <<JoinComma(config[c].Publish.Channels)>>, "")>>)

\* C18: the wire of every session starts with PASS, NICK, CAP REQ and, unless
\* the channel list is empty, JOIN, in this order and each once; every later
\* write is a PRIVMSG, a PONG or a QUIT; and while the establishment writes are
\* not all on the wire the shutdown waiter has not been started and the
\* subscribe callback is not registered (so neither can write).
C18_EstablishmentOrder ==
  \A c \in Conns :
    LET est == EstablishmentWrites(c)
        n == Len(est)
    IN /\ \A i \in DOMAIN wire[c] :
            /\ i <= 3 => wire[c][i] = est[i]
            /\ (i = 4 /\ n = 4) =>
                 /\ wire[c][i].Command = "JOIN"
                 /\ Joined(c) => wire[c][i] = est[i]
            /\ i > n => wire[c][i].Command \in {"PRIVMSG", "PONG", "QUIT"}
       /\ (wpc[c] # "none" \/ subscribed[c] \/ hpc[c] # "idle") =>
            /\ Len(wire[c]) >= n
            /\ runpc[c] \notin {"idle", "dial", "join"}

\* C18 witness: the interrupt arrived while the connection was still being
\* established; all four establishment writes were made before the QUIT.
C18_Witness ==
  \E c \in Conns :
    /\ stop /\ c \notin liveAtStop /\ derr[c] = ""
    /\ Len(wire[c]) = 5
    /\ [i \in 1..5 |-> wire[c][i].Command] = <<"PASS", "NICK", "CAP", "JOIN", "QUIT">>

----------------------------------------------------------------------------
(* C19: the configuration after validation *)

\* C19: every Connection is, at any later time, exactly what validate() saw:
\* nick, pass, both topics, both QOS values and the channel names.
C19_ConfigUnchanged ==
  \A i \in DOMAIN snapshot : config[i] = snapshot[i]

----------------------------------------------------------------------------
(* C20: the lock cannot deadlock *)

\* C20: the lock is held only by the waiter or the callback, and only while
\* that one is inside its single session write: not by the waiter while it
\* waits for the stop signal, never by the read loop (which blocks in Decode),
\* and not after the callback's write returned, failed or not.  The holder can
\* always finish its write, which releases the lock or ends the process; so,
\* writes returning, whoever asked for the lock gets it unless the process
\* ends.
C20_LockNoDeadlock ==
  /\ [](\A c \in FairConns :
          /\ mu[c] \in {"free", "waiter", "handler"}
          /\ mu[c] = "waiter" <=> wpc[c] = "quit"
          /\ mu[c] = "handler" <=> hpc[c] = "encode"
          /\ (proc = "running" /\ mu[c] = "waiter") => ENABLED WaiterQuitDone(c)
          /\ (proc = "running" /\ mu[c] = "handler") => ENABLED HandlerDone(c))
  /\ [][\A c \in FairConns :
          (hpc[c] = "encode" /\ hpc'[c] # "encode") => mu'[c] = "free"]_vars
  /\ \A c \in FairConns :
       /\ (hpc[c] = "lock") ~> (hpc[c] = "encode" \/ proc # "running")
       /\ (wpc[c] = "wait" /\ stop) ~> (wpc[c] = "quit" \/ proc # "running")

\* C20 witness: the callback asks for the lock while the waiter holds it for
\* the QUIT write.
C20_Witness ==
  \E c \in Conns :
    /\ mu[c] = "waiter" /\ wpc[c] = "quit"
    /\ hpc[c] = "lock"
    /\ proc = "running"

====
